---- MODULE Spec2Model ----
(***************************************************************************)
(* Contrastive decoding (the two generate_next_token functions of the      *)
(* contrastive-decoding notebook) and the MultiHeadAttention module of     *)
(* ml/autoregressive_models.ipynb, as state machines.                      *)
(*                                                                         *)
(* Representation of tensors.  A vocabulary vector is a function on        *)
(* 1..vocab_size (vocabulary id i of the code is index i+1 here).          *)
(* Probabilities are exact rationals [num, den].  A value in the log       *)
(* domain (a logit, a log-probability, a contrastive score) is kept as the *)
(* record [exp |-> r] of its antilogarithm r: log x - log y is [exp |->    *)
(* x/y] and float('-inf') is [exp |-> 0].  Softmax over finite logits is   *)
(* strictly positive, so scorer outputs have positive antilogarithms.      *)
(***************************************************************************)
EXTENDS Integers, Sequences, FiniteSets, TLC

(***************************************************************************)
(* Bounds of the model.                                                    *)
(***************************************************************************)
\* number of entries torch.topk keeps.  The notebook hard-codes k=50 against
\* GPT-2's 50257-entry vocabulary; the model keeps the ratio "k smaller than,
\* equal to, larger than the vocabulary" by scaling both.
TopK == 3
\* largest num_tokens a call is made with
MaxTokens == 2
\* longest prompt text, in characters
MaxPromptLen == 1
\* largest hidden_size, num_heads, batch size and sequence length a
\* MultiHeadAttention is built and called with
MaxHidden == 4
MaxHeads == 3
MaxBatch == 2
MaxSeqLen == 3
TgtVocabSize == 3

(***************************************************************************)
(* Exact arithmetic standing for the float tensors.                        *)
(***************************************************************************)
\* Operands are bound to their values before they are used: each is
\* evaluated once however often the body names it.
The(S) == CHOOSE v \in S : TRUE

Abs(x) == IF x < 0 THEN -x ELSE x

RECURSIVE GCD(_, _)
GCD(a, b) == IF b = 0 THEN a ELSE The({GCD(p[1], p[2]) : p \in {<<b, a % b>>}})

\* the rational n/d in lowest terms (d > 0)
Rat(n, d) ==
    The({[num |-> p[1] \div p[3], den |-> p[2] \div p[3]] :
            p \in {<<n, d, GCD(Abs(n), d)>>}})

\* the value a float operation yields where none is defined (0/0, inf - inf)
NaN == [num |-> 0, den |-> 0]

IsNaN(x) == x.den = 0

RatMul(x, y) ==
    The({Rat(p[1].num * p[2].num, p[1].den * p[2].den) : p \in {<<x, y>>}})

RatAdd(x, y) ==
    The({Rat(p[1].num * p[2].den + p[2].num * p[1].den, p[1].den * p[2].den) :
            p \in {<<x, y>>}})

\* x / y; 0/0 is NaN (y is never negative here)
RatDiv(x, y) ==
    The({IF p[2].num = 0 THEN NaN
         ELSE Rat(p[1].num * p[2].den, p[1].den * p[2].num) : p \in {<<x, y>>}})

RatGeq(x, y) == x.num * y.den >= y.num * x.den

RatGt(x, y) == x.num * y.den > y.num * x.den

\* torch.log: the log-domain value whose antilogarithm is p
TorchLog(p) == [exp |-> p]

\* float('-inf')
NegInf == [exp |-> Rat(0, 1)]

\* a - b in the log domain
LogSub(a, b) == [exp |-> RatDiv(a.exp, b.exp)]

LogGt(a, b) == RatGt(a.exp, b.exp)

RECURSIVE Vec(_, _)
\* the tensor with entries f[1], ..., f[n], as a sequence
Vec(f, n) == IF n = 0 THEN <<>> ELSE Append(Vec(f, n - 1), f[n])

RECURSIVE ExpSum(_, _)
\* sum of the antilogarithms of logits[1..n]
ExpSum(logits, n) ==
    IF n = 0 THEN Rat(0, 1) ELSE RatAdd(ExpSum(logits, n - 1), logits[n].exp)

\* torch.max over a vector of probabilities
RatMax(x) ==
    CHOOSE v \in {x[i] : i \in 1..Len(x)} :
        \A w \in {x[i] : i \in 1..Len(x)} : RatGeq(v, w)

\* F.softmax(logits, dim=-1): exp of each entry over the sum of the exps.
\* When every entry is -inf the sum is 0 and every output is NaN.
softmax(logits) ==
    The({Vec([i \in 1..Len(logits) |-> RatDiv(logits[i].exp, s)], Len(logits)) :
            s \in {ExpSum(logits, Len(logits))}})

(***************************************************************************)
(* The tokenizer (GPT-2 byte-pair encoding), reduced to one merge rule.    *)
(* Token 1 is the text "a", token 2 the text "b"; with at least four       *)
(* vocabulary entries token 3 is the merged text "ab".  Every other token  *)
(* is one character of its own.  Characters are numbered like the          *)
(* single-character token that spells them.                                *)
(***************************************************************************)
MergedToken == 3

HasMerge(vs) == vs >= 4

TokenText(t, vs) == IF HasMerge(vs) /\ t = MergedToken THEN <<1, 2>> ELSE <<t>>

RECURSIVE decode(_, _)
\* tokenizer.decode(ids): the texts of the tokens, concatenated
decode(ids, vs) ==
    IF ids = <<>> THEN <<>>
    ELSE TokenText(Head(ids), vs) \o decode(Tail(ids), vs)

RECURSIVE encode(_, _)
\* tokenizer(text)['input_ids'][0]: "ab" becomes the merged token wherever it
\* occurs, every other character its own token
encode(text, vs) ==
    IF text = <<>> THEN <<>>
    ELSE IF HasMerge(vs) /\ Len(text) >= 2 /\ text[1] = 1 /\ text[2] = 2
         THEN <<MergedToken>> \o encode(SubSeq(text, 3, Len(text)), vs)
         ELSE <<Head(text)>> \o encode(Tail(text), vs)

(***************************************************************************)
(* The scorers: the last-position logits of expert_model and               *)
(* amateur_model on the current encoding.  A language                      *)
(* model is a pure function of the token sequence it is given; the model   *)
(* has two experts and two amateurs, each a fixed profile of logits that   *)
(* the context rotates over the vocabulary.                                *)
(***************************************************************************)
ExpertModels == {"peaked", "flat"}

AmateurModels == {"tail", "flat"}

RECURSIVE SeqSum(_)
SeqSum(s) == IF s = <<>> THEN 0 ELSE Head(s) + SeqSum(Tail(s))

\* antilogarithm of the logit a profile gives its j-th entry
Profile(m, j) ==
    CASE m = "peaked" -> (IF j = 1 THEN 14 ELSE IF j = 2 THEN 4 ELSE 1)
      [] m = "tail"   -> (IF j <= 2 THEN 1 ELSE 4)
      [] OTHER        -> 1

Logits(m, input_ids, vs) ==
    The({Vec([i \in 1..vs |->
                 TorchLog(Rat(Profile(m, ((i - 1 + shift) % vs) + 1), 1))], vs) :
            shift \in {SeqSum(input_ids) % vs}})

(***************************************************************************)
(* State of one call of generate_next_token.                               *)
(***************************************************************************)
VARIABLES
    pc,                 \* "idle" (no call made), "generating" (in the for loop),
                        \* "done" (returned), "error" (raised)
    adaptive,           \* TRUE: the function with adaptive plausibility; FALSE: the one without
    alpha,              \* the alpha argument, a rational (adaptive only)
    vocab_size,         \* number of entries of the scorers' logits
    expert_model,
    amateur_model,
    num_tokens,
    prompt,             \* input_ids of the encoding the call is made with
    generated_tokens,
    encoding,           \* input_ids of the local variable encoding
    step,               \* iterations of the for loop begun so far
    scorer_input,       \* input_ids both scorers were called with in the last iteration
    expert_probs,       \* the locals of the last iteration, <<>> before the first
    amateur_probs,
    plausible_mask,
    contrastive_logits,
    topk_indices,
    topk_probs,
    next_token,         \* 0 before the first token is appended
    result,             \* the returned text
    mha_pc,             \* MultiHeadAttention: "idle", "raised" or "returned"
    mha_call,           \* the arguments of the construction and of the forward call
    mha_error,          \* the exception raised, "" when none
    mha_output,         \* shape of the tensor forward returned
    mha_layers,         \* the projections __init__ created, in order
    mha_uses,           \* the attribute of self that projected each of Q, K, V
    mha_attends,        \* per query position, the key/value positions of non-zero weight
    seq_pc,             \* EncoderDecoderLSTM: "idle", "raised" or "returned"
    seq_call,           \* the arguments of the construction and of the method called
    seq_error,          \* the exception raised, "" when none
    seq_steps,          \* decoder calls begun by the method's loop
    seq_handed,         \* per decoder call, the shapes of the mask handed over and of
                        \* the self-attention scores it is applied to
    seq_result          \* forward: shape of outputs; inference: generated_ids, one row
                        \* per batch element

decoder_vars ==
    <<pc, adaptive, alpha, vocab_size, expert_model, amateur_model, num_tokens,
      prompt, generated_tokens, encoding, step, scorer_input, expert_probs,
      amateur_probs, plausible_mask, contrastive_logits, topk_indices,
      topk_probs, next_token, result>>

mha_vars ==
    <<mha_pc, mha_call, mha_error, mha_output, mha_layers, mha_uses, mha_attends>>

seq_vars == <<seq_pc, seq_call, seq_error, seq_steps, seq_handed, seq_result>>

vars == <<decoder_vars, mha_vars, seq_vars>>

\* alpha = 0.1, the default of the adaptive function's signature
DefaultAlpha == Rat(1, 10)

\* alpha values inside [0, 1]
ValidAlphas == {Rat(0, 1), DefaultAlpha, Rat(3, 10), Rat(1, 1)}

\* alpha values outside [0, 1]
InvalidAlphas == {Rat(-1, 1), Rat(2, 1)}

AlphaInRange(al) == RatGeq(al, Rat(0, 1)) /\ RatGeq(Rat(1, 1), al)

\* the characters prompts are written with: "a" and "b"
PromptChars == {1, 2}

\* texts of 1..MaxPromptLen characters
PromptTexts == UNION {[1..n -> PromptChars] : n \in 1..MaxPromptLen}

\* variant of calculate_vhead: the comparison is strict
calculate_vhead_strict(probs, al) ==
    The({Vec([i \in 1..Len(probs) |-> RatGt(probs[i], bound)], Len(probs)) :
            bound \in {RatMul(al, RatMax(probs))}})

(***************************************************************************)
(* calculate_vhead(expert_probs, alpha)                                    *)
(***************************************************************************)
calculate_vhead(probs, al) ==
    The({Vec([i \in 1..Len(probs) |-> RatGeq(probs[i], bound)], Len(probs)) :
            bound \in {RatMul(al, RatMax(probs))}})

(***************************************************************************)
(* The contrastive score without adaptive plausibility:                    *)
(* torch.log(expert_probs) - torch.log(amateur_probs).                     *)
(***************************************************************************)
ContrastivePlain(e_probs, a_probs) ==
    Vec([i \in 1..Len(e_probs) |-> LogSub(TorchLog(e_probs[i]), TorchLog(a_probs[i]))],
        Len(e_probs))

\* variant of ContrastiveAdaptive: implausible entries keep log(expert)
\* instead of being set to -inf
ContrastiveAdaptive_NoExclusion(e_probs, a_probs, al) ==
    The({[plausible_mask |-> t.mask,
          contrastive_logits |->
              Vec([i \in 1..Len(e_probs) |->
                      IF t.mask[i] THEN LogSub(t.logits[i], t.amateur_penalty[i])
                      ELSE t.logits[i]],
                  Len(e_probs))] :
         t \in {[mask |-> calculate_vhead(e_probs, al),
                 logits |-> Vec([i \in 1..Len(e_probs) |-> TorchLog(e_probs[i])],
                                Len(e_probs)),
                 amateur_penalty |->
                     Vec([i \in 1..Len(a_probs) |-> TorchLog(a_probs[i])],
                         Len(a_probs))]}})

\* variant of ContrastiveAdaptive: the amateur penalty is never subtracted
ContrastiveAdaptive_NoPenalty(e_probs, a_probs, al) ==
    The({[plausible_mask |-> t.mask,
          contrastive_logits |->
              Vec([i \in 1..Len(e_probs) |->
                      IF t.mask[i] THEN t.logits[i]
                      ELSE NegInf],
                  Len(e_probs))] :
         t \in {[mask |-> calculate_vhead(e_probs, al),
                 logits |-> Vec([i \in 1..Len(e_probs) |-> TorchLog(e_probs[i])],
                                Len(e_probs)),
                 amateur_penalty |->
                     Vec([i \in 1..Len(a_probs) |-> TorchLog(a_probs[i])],
                         Len(a_probs))]}})

\* variant of ContrastiveAdaptive: calculate_vhead is handed the amateur's
\* probabilities
ContrastiveAdaptive_MaskFromAmateur(e_probs, a_probs, al) ==
    The({[plausible_mask |-> t.mask,
          contrastive_logits |->
              Vec([i \in 1..Len(e_probs) |->
                      IF t.mask[i] THEN LogSub(t.logits[i], t.amateur_penalty[i])
                      ELSE NegInf],
                  Len(e_probs))] :
         t \in {[mask |-> calculate_vhead(a_probs, al),
                 logits |-> Vec([i \in 1..Len(e_probs) |-> TorchLog(e_probs[i])],
                                Len(e_probs)),
                 amateur_penalty |->
                     Vec([i \in 1..Len(a_probs) |-> TorchLog(a_probs[i])],
                         Len(a_probs))]}})

(***************************************************************************)
(* The contrastive score with adaptive plausibility: the mask, then        *)
(* log(expert) with the amateur penalty subtracted where the mask holds    *)
(* and -inf where it does not.                                             *)
(***************************************************************************)
ContrastiveAdaptive(e_probs, a_probs, al) ==
    The({[plausible_mask |-> t.mask,
          contrastive_logits |->
              Vec([i \in 1..Len(e_probs) |->
                      IF t.mask[i] THEN LogSub(t.logits[i], t.amateur_penalty[i])
                      ELSE NegInf],
                  Len(e_probs))] :
         t \in {[mask |-> calculate_vhead(e_probs, al),
                 logits |-> Vec([i \in 1..Len(e_probs) |-> TorchLog(e_probs[i])],
                                Len(e_probs)),
                 amateur_penalty |->
                     Vec([i \in 1..Len(a_probs) |-> TorchLog(a_probs[i])],
                         Len(a_probs))]}})

(***************************************************************************)
(* torch.topk(logits, k): the indices of k largest entries, largest first. *)
(* Which of several equal entries are kept is not specified, so every      *)
(* choice is a possible result; equal entries are listed by index.         *)
(***************************************************************************)
\* the entry of S listed first: the largest, the lowest index among equals
Best(S, logits) ==
    CHOOSE x \in S : \A y \in S \ {x} :
        \/ LogGt(logits[x], logits[y])
        \/ (~LogGt(logits[y], logits[x]) /\ x < y)

RECURSIVE SortedByScore(_, _)
SortedByScore(S, logits) ==
    The({IF T = {} THEN <<>>
         ELSE The({<<b>> \o SortedByScore(T \ {b}, logits) : b \in {Best(T, logits)}}) :
         T \in {S}})

topk(logits, k) ==
    {SortedByScore(S, logits) :
        S \in {T \in SUBSET (1..Len(logits)) :
                 /\ Cardinality(T) = k
                 /\ \A x \in T : \A y \in (1..Len(logits)) \ T :
                        ~LogGt(logits[y], logits[x])}}

\* torch.multinomial(probs, num_samples=1): any position of nonzero probability
multinomial(probs) == {j \in 1..Len(probs) : probs[j].num > 0}

\* torch.multinomial rejects a probability tensor that contains NaN
HasNaN(probs) == \E j \in 1..Len(probs) : IsNaN(probs[j])

\* variant of list_append: the new token overwrites the last one
list_append_overwrite(tokens, tok) ==
    Append(SubSeq(tokens, 1, Len(tokens) - 1), tok)

\* generated_tokens.append(next_token.item())
list_append(tokens, tok) == Append(tokens, tok)

\* variant of range_has_next: the loop runs one iteration short
range_has_next_short(i, n) == i + 1 < n

\* for _ in range(num_tokens): is there another iteration after i of them
range_has_next(i, n) == i < n

\* tokenizer.eos_token_id: the last entry of the vocabulary, as in GPT-2
eos_token_id(vs) == vs

(***************************************************************************)
(* One iteration of the for loop of generate_next_token (both functions).  *)
(***************************************************************************)
GenerateStep ==
    /\ pc = "generating"
    /\ range_has_next(step, num_tokens)
    /\ \E expert_logits \in {Logits(expert_model, encoding, vocab_size)},
          amateur_logits \in {Logits(amateur_model, encoding, vocab_size)} :
       \E e_probs \in {softmax(expert_logits)}, a_probs \in {softmax(amateur_logits)} :
         \E cd \in {IF adaptive
                    THEN ContrastiveAdaptive(e_probs, a_probs, alpha)
                    ELSE [plausible_mask |-> <<>>,
                          contrastive_logits |-> ContrastivePlain(e_probs, a_probs)]} :
           /\ step' = step + 1
           /\ scorer_input' = encoding
           /\ expert_probs' = e_probs
           /\ amateur_probs' = a_probs
           /\ plausible_mask' = cd.plausible_mask
           /\ contrastive_logits' = cd.contrastive_logits
           /\ IF vocab_size < TopK
              THEN \* torch.topk raises: k is out of range for the dimension
                   /\ pc' = "error"
                   /\ UNCHANGED <<topk_indices, topk_probs, next_token,
                                  generated_tokens, encoding>>
              ELSE \E indices \in topk(cd.contrastive_logits, TopK) :
                     \E topk_logits \in {Vec([j \in 1..TopK |->
                                                cd.contrastive_logits[indices[j]]],
                                             TopK)} :
                     \E probs \in {softmax(topk_logits)} :
                         /\ topk_indices' = indices
                         /\ topk_probs' = probs
                         /\ IF HasNaN(probs)
                            THEN \* torch.multinomial raises
                                 /\ pc' = "error"
                                 /\ UNCHANGED <<next_token, generated_tokens, encoding>>
                            ELSE \E sampled_index \in multinomial(probs) :
                                   \E tokens \in {list_append(generated_tokens,
                                                              indices[sampled_index])} :
                                       /\ next_token' = indices[sampled_index]
                                       /\ generated_tokens' = tokens
                                       /\ encoding' = encode(decode(tokens, vocab_size),
                                                             vocab_size)
                                       /\ pc' = "generating"
    /\ UNCHANGED <<adaptive, alpha, vocab_size, expert_model, amateur_model,
                   num_tokens, prompt, result>>
    /\ UNCHANGED <<mha_vars, seq_vars>>

(***************************************************************************)
(* The loop is over: return tokenizer.decode(generated_tokens).            *)
(***************************************************************************)
GenerateReturn ==
    /\ pc = "generating"
    /\ ~range_has_next(step, num_tokens)
    /\ pc' = "done"
    /\ result' = decode(generated_tokens, vocab_size)
    /\ UNCHANGED <<adaptive, alpha, vocab_size, expert_model, amateur_model,
                   num_tokens, prompt, generated_tokens, encoding, step,
                   scorer_input, expert_probs, amateur_probs, plausible_mask,
                   contrastive_logits, topk_indices, topk_probs, next_token>>
    /\ UNCHANGED <<mha_vars, seq_vars>>

(***************************************************************************)
(* A call generate_next_token(encoding, expert_model, amateur_model,       *)
(* num_tokens[, alpha]) just after generated_tokens is set from the        *)
(* encoding.  The encoding is what the tokenizer gave for some text.       *)
(***************************************************************************)
DecoderInit(VocabSizes, Alphas) ==
    /\ pc = "generating"
    /\ adaptive \in BOOLEAN
    /\ alpha \in (IF adaptive THEN Alphas ELSE {DefaultAlpha})
    /\ vocab_size \in VocabSizes
    /\ expert_model \in ExpertModels
    /\ amateur_model \in AmateurModels
    /\ num_tokens \in 0..MaxTokens
    /\ prompt \in {encode(t, vocab_size) : t \in PromptTexts}
    /\ generated_tokens = prompt
    /\ encoding = prompt
    /\ step = 0
    /\ scorer_input = <<>>
    /\ expert_probs = <<>>
    /\ amateur_probs = <<>>
    /\ plausible_mask = <<>>
    /\ contrastive_logits = <<>>
    /\ topk_indices = <<>>
    /\ topk_probs = <<>>
    /\ next_token = 0
    /\ result = <<>>

(***************************************************************************)
(* MultiHeadAttention (ml/autoregressive_models.ipynb).  Tensors are kept  *)
(* as their shapes.                                                        *)
(***************************************************************************)
\* the keyword parameters of torch.nn.Linear.__init__
LinearKeywords == {"in_features", "out_features", "bias", "device", "dtype"}

\* nn.Linear(**kw): the layer, or the TypeError Python raises for a keyword
\* the constructor does not have or a required one that is missing
nn_Linear(kw) ==
    IF DOMAIN kw \subseteq LinearKeywords
          /\ {"in_features", "out_features"} \subseteq DOMAIN kw
    THEN [raised |-> "", in_features |-> kw.in_features, out_features |-> kw.out_features]
    ELSE [raised |-> "TypeError"]

\* the projections __init__ builds, in the order of its statements: the
\* module when all are built, otherwise the exception of the first that
\* fails and the attributes assigned before it
RECURSIVE BuildLayers(_, _, _)
BuildLayers(names, kws, done) ==
    IF names = <<>>
    THEN [raised |-> "", created |-> done]
    ELSE IF nn_Linear(Head(kws)).raised # ""
         THEN [raised |-> nn_Linear(Head(kws)).raised, created |-> done]
         ELSE BuildLayers(Tail(names), Tail(kws), Append(done, Head(names)))

\* __init__ without the divisibility assertion
MHA__init__NoAssert(hidden_size, num_heads) ==
    LET built == BuildLayers(<<"query", "key", "value", "fc_out">>,
                    << [in_features |-> hidden_size, out_features |-> hidden_size],
                       [in_features |-> hidden_size, out_features |-> hidden_size],
                       [in_feautures |-> hidden_size, out_features |-> hidden_size],
                       [in_features |-> hidden_size, out_features |-> hidden_size] >>,
                    <<>>)
    IN  [raised |-> built.raised, created |-> built.created,
         hidden_size |-> hidden_size, num_heads |-> num_heads,
         head_dim |-> hidden_size \div num_heads]

\* MultiHeadAttention.__init__(hidden_size, num_heads): the module, or the
\* exception the constructor raises, with the projections created so far
MHA__init__(hidden_size, num_heads) ==
    IF hidden_size % num_heads # 0
    THEN [raised |-> "AssertionError", created |-> <<>>]
    ELSE LET built == BuildLayers(<<"query", "key", "value", "fc_out">>,
                        << [in_features |-> hidden_size, out_features |-> hidden_size],
                           [in_features |-> hidden_size, out_features |-> hidden_size],
                           [in_feautures |-> hidden_size, out_features |-> hidden_size],
                           [in_features |-> hidden_size, out_features |-> hidden_size] >>,
                        <<>>)
         IN  [raised |-> built.raised, created |-> built.created,
              hidden_size |-> hidden_size, num_heads |-> num_heads,
              head_dim |-> hidden_size \div num_heads]

\* number of elements of a tensor of the given shape
RECURSIVE Numel(_)
Numel(shape) == IF shape = <<>> THEN 1 ELSE Head(shape) * Numel(Tail(shape))

\* layer(x) for a layer of out_features = hidden_size: the last dimension
\* becomes out_features
LinearShape(out_features, x) == [x EXCEPT ![Len(x)] = out_features]

\* x.view(batch_size, -1, num_heads, head_dim).transpose(1, 2)
SplitHeads(x, batch_size, num_heads, head_dim) ==
    <<batch_size, num_heads, Numel(x) \div (batch_size * num_heads * head_dim), head_dim>>

\* torch.tril(torch.ones((n, n))).bool().unsqueeze(0).unsqueeze(1): the
\* boolean matrix, rows are query positions; its shape is (1, 1, n, n)
tril(n) == [i \in 1..n |-> [j \in 1..n |-> j <= i]]

\* mask[:, :, :rows, :cols]
MaskSlice(mask, rows, cols) ==
    IF mask = <<>> THEN <<>>
    ELSE [i \in 1..(IF rows < Len(mask) THEN rows ELSE Len(mask)) |->
             SubSeq(mask[i], 1, cols)]

\* shape of a mask tensor, (1, 1, rows, cols)
MaskShape(mask) == <<1, 1, Len(mask), IF mask = <<>> THEN 0 ELSE Len(mask[1])>>

\* a tensor of shape from can be broadcast to shape to (same rank)
Broadcastable(from, to) ==
    /\ Len(from) = Len(to)
    /\ \A d \in 1..Len(to) : from[d] = to[d] \/ from[d] = 1

\* scores.masked_fill(mask == False, float('-inf')): for each query position
\* the key positions whose score is left finite; mask None is <<>>
masked_fill(scores, mask) ==
    IF mask = <<>>
    THEN [raised |-> "", finite |-> [i \in 1..scores[3] |-> 1..scores[4]]]
    ELSE IF ~Broadcastable(MaskShape(mask), scores)
         THEN [raised |-> "RuntimeError"]
         ELSE [raised |-> "",
               finite |-> [i \in 1..scores[3] |->
                   {j \in 1..scores[4] :
                       mask[IF Len(mask) = 1 THEN 1 ELSE i]
                           [IF Len(mask[1]) = 1 THEN 1 ELSE j]}]]

\* MultiHeadAttention.forward(query, key, value, mask): the shape of the
\* scores and the exception it raises, or the shape of the output, the attribute of self that projected
\* each of Q, K and V, and for each query position the key/value positions
\* with a non-zero attention weight (softmax gives weight 0 exactly where the
\* score is -inf, and the output row is the weighted sum of those rows of V)
MHA_forward(self, query, key, value, mask) ==
    LET batch_size == query[1]
        \* Q = self.query(query); K = self.query(key); V = self.query(value)
        Q == SplitHeads(LinearShape(self.hidden_size, query), batch_size,
                        self.num_heads, self.head_dim)
        K == SplitHeads(LinearShape(self.hidden_size, key), batch_size,
                        self.num_heads, self.head_dim)
        V == SplitHeads(LinearShape(self.hidden_size, value), batch_size,
                        self.num_heads, self.head_dim)
        \* matmul(Q, K.transpose(-2, -1)) / self.scale
        scores == <<Q[1], Q[2], Q[3], K[3]>>
        filled == masked_fill(scores, mask)
        \* matmul(attn_weights, V)
        attn_output == <<scores[1], scores[2], scores[3], V[4]>>
        \* transpose(1, 2).contiguous().view(batch_size, -1, hidden_size)
        merged == <<batch_size, Numel(attn_output) \div (batch_size * self.hidden_size),
                    self.hidden_size>>
    IN  IF filled.raised # ""
        THEN [raised |-> filled.raised, scores |-> scores]
        ELSE [raised |-> "", scores |-> scores,
              output |-> LinearShape(self.hidden_size, merged),
              uses |-> [Q |-> "query", K |-> "query", V |-> "query"],
              attends |-> filled.finite]

\* MultiHeadAttention(hidden_size, num_heads) is constructed and called once:
\* as self-attention (query, key and value are one tensor), without a mask or
\* with the causal mask of the sequence length, or as cross-attention (key
\* and value are another sequence)
MHACall ==
    /\ mha_pc = "idle"
    /\ \E hidden_size \in 1..MaxHidden, num_heads \in 1..MaxHeads,
          batch \in 1..MaxBatch, q_len \in 1..MaxSeqLen, kv_len \in 1..MaxSeqLen,
          kind \in {"self", "cross"}, causal \in BOOLEAN :
         /\ kind = "self" => kv_len = q_len
         /\ causal => kind = "self"
         /\ mha_call' = [hidden_size |-> hidden_size, num_heads |-> num_heads,
                         batch |-> batch, q_len |-> q_len, kv_len |-> kv_len,
                         kind |-> kind, causal |-> causal]
         /\ \E self \in {MHA__init__(hidden_size, num_heads)} :
              /\ mha_layers' = self.created
              /\ IF self.raised # ""
                 THEN /\ mha_pc' = "raised"
                      /\ mha_error' = self.raised
                      /\ mha_output' = <<>>
                      /\ mha_uses' = <<>>
                      /\ mha_attends' = <<>>
                 ELSE \E out \in {MHA_forward(self, <<batch, q_len, hidden_size>>,
                                              <<batch, kv_len, hidden_size>>,
                                              <<batch, kv_len, hidden_size>>,
                                              IF causal THEN tril(q_len) ELSE <<>>)} :
                        IF out.raised # ""
                        THEN /\ mha_pc' = "raised"
                             /\ mha_error' = out.raised
                             /\ mha_output' = <<>>
                             /\ mha_uses' = <<>>
                             /\ mha_attends' = <<>>
                        ELSE /\ mha_pc' = "returned"
                             /\ mha_error' = ""
                             /\ mha_output' = out.output
                             /\ mha_uses' = out.uses
                             /\ mha_attends' = out.attends
    /\ UNCHANGED <<decoder_vars, seq_vars>>

\* no MultiHeadAttention has been constructed
MHAIdle ==
    /\ mha_pc = "idle"
    /\ mha_call = <<>>
    /\ mha_error = ""
    /\ mha_output = <<>>
    /\ mha_layers = <<>>
    /\ mha_uses = <<>>
    /\ mha_attends = <<>>

\* generate_next_token has not been called
DecoderIdle ==
    /\ pc = "idle"
    /\ adaptive = FALSE
    /\ alpha = DefaultAlpha
    /\ vocab_size = 0
    /\ expert_model = ""
    /\ amateur_model = ""
    /\ num_tokens = 0
    /\ prompt = <<>>
    /\ generated_tokens = <<>>
    /\ encoding = <<>>
    /\ step = 0
    /\ scorer_input = <<>>
    /\ expert_probs = <<>>
    /\ amateur_probs = <<>>
    /\ plausible_mask = <<>>
    /\ contrastive_logits = <<>>
    /\ topk_indices = <<>>
    /\ topk_probs = <<>>
    /\ next_token = 0
    /\ result = <<>>

(***************************************************************************)
(* EncoderLSTM, DecoderLSTM and EncoderDecoderLSTM                         *)
(* (ml/autoregressive_models.ipynb).  Tensors are kept as their shapes;    *)
(* the token a row's argmax picks is any token of the target vocabulary.   *)
(***************************************************************************)
\* defaults of inference's signature
sos_token == 1
eos_token == 2

\* a, _ = x for a tensor x: iterating x yields its slices along the first
\* dimension, and there must be exactly two of them
TupleUnpack(x) ==
    IF x[1] = 2 THEN [raised |-> "", item |-> Tail(x)] ELSE [raised |-> "ValueError"]

\* a shape with leading dimensions of size 1 up to rank n
PadLeft(x, n) == [d \in 1..n |-> IF d <= n - Len(x) THEN 1 ELSE x[d - (n - Len(x))]]

\* shape of a + b under broadcasting
AddShape(a, b) ==
    LET n == IF Len(a) > Len(b) THEN Len(a) ELSE Len(b)
        pa == PadLeft(a, n)
        pb == PadLeft(b, n)
    IN  IF \A d \in 1..n : pa[d] = pb[d] \/ pa[d] = 1 \/ pb[d] = 1
        THEN [raised |-> "",
              shape |-> [d \in 1..n |-> IF pa[d] > pb[d] THEN pa[d] ELSE pb[d]]]
        ELSE [raised |-> "RuntimeError"]

\* EncoderLSTM.__init__: builds its self_attention
EncoderLSTM__init__(hidden_size, num_heads) ==
    LET self_attention == MHA__init__(hidden_size, num_heads)
    IN  IF self_attention.raised # ""
        THEN [raised |-> self_attention.raised]
        ELSE [raised |-> "", hidden_size |-> hidden_size,
              self_attention |-> self_attention]

\* DecoderLSTM.__init__: builds its self_attention, then its cross_attention
DecoderLSTM__init__(hidden_size, num_heads) ==
    LET self_attention == MHA__init__(hidden_size, num_heads)
        cross_attention == MHA__init__(hidden_size, num_heads)
    IN  IF self_attention.raised # ""
        THEN [raised |-> self_attention.raised]
        ELSE IF cross_attention.raised # ""
        THEN [raised |-> cross_attention.raised]
        ELSE [raised |-> "", hidden_size |-> hidden_size,
              self_attention |-> self_attention,
              cross_attention |-> cross_attention]

\* EncoderDecoderLSTM.__init__: builds the encoder, then the decoder
EncoderDecoderLSTM__init__(tgt_vocab_size, hidden_size, num_heads) ==
    LET encoder == EncoderLSTM__init__(hidden_size, num_heads)
        decoder == DecoderLSTM__init__(hidden_size, num_heads)
    IN  IF encoder.raised # ""
        THEN [raised |-> encoder.raised]
        ELSE IF decoder.raised # ""
        THEN [raised |-> decoder.raised]
        ELSE [raised |-> "", encoder |-> encoder, decoder |-> decoder,
              tgt_vocab_size |-> tgt_vocab_size]

\* x + (y, _ = attention(...)): the residual sum after the tuple unpacking of
\* the attention's return value
Residual(x, attn) ==
    IF attn.raised # ""
    THEN [raised |-> attn.raised]
    ELSE IF TupleUnpack(attn.output).raised # ""
    THEN [raised |-> TupleUnpack(attn.output).raised]
    ELSE AddShape(x, TupleUnpack(attn.output).item)

\* EncoderLSTM.forward(input_ids): the shape of outputs, or the exception
EncoderLSTM_forward(self, input_ids) ==
    LET lstm_outputs == <<input_ids[1], input_ids[2], self.hidden_size>>
        summed == Residual(lstm_outputs,
                      MHA_forward(self.self_attention, lstm_outputs,
                                  lstm_outputs, lstm_outputs, <<>>))
    IN  IF summed.raised # ""
        THEN [raised |-> summed.raised]
        ELSE [raised |-> "", outputs |-> summed.shape]

\* DecoderLSTM.forward(input_ids, hidden, cell, encoder_outputs,
\* self_attn_mask): the shape of the self-attention scores the mask is
\* applied to, and the shapes of predictions and outputs or the exception
DecoderLSTM_forward(self, tgt_vocab_size, input_ids, encoder_outputs, self_attn_mask) ==
    LET lstm_outputs == <<input_ids[1], input_ids[2], self.hidden_size>>
        self_attn == MHA_forward(self.self_attention, lstm_outputs,
                                 lstm_outputs, lstm_outputs, self_attn_mask)
        self_attn_output == Residual(lstm_outputs, self_attn)
    IN  IF self_attn_output.raised # ""
        THEN [raised |-> self_attn_output.raised, scores |-> self_attn.scores]
        ELSE LET outputs == Residual(self_attn_output.shape,
                                MHA_forward(self.cross_attention,
                                            self_attn_output.shape,
                                            encoder_outputs, encoder_outputs, <<>>))
             IN  IF outputs.raised # ""
                 THEN [raised |-> outputs.raised, scores |-> self_attn.scores]
                 ELSE [raised |-> "", scores |-> self_attn.scores,
                       outputs |-> outputs.shape,
                       \* self.fc(outputs.squeeze(1) if input_ids.size(1) == 1
                       \* else outputs)
                       predictions |->
                           IF input_ids[2] = 1
                           THEN <<outputs.shape[1], tgt_vocab_size>>
                           ELSE [outputs.shape EXCEPT ![3] = tgt_vocab_size]]

\* the for loop of EncoderDecoderLSTM.forward from iteration t on
RECURSIVE ForwardLoop(_, _, _, _, _, _)
ForwardLoop(self, t, tgt_ids, encoder_outputs, self_attn_mask, handed) ==
    IF ~(t < tgt_ids[2])
    THEN [raised |-> "", steps |-> Len(handed), handed |-> handed,
          result |-> <<tgt_ids[1], tgt_ids[2], self.tgt_vocab_size>>]
    ELSE LET mask == IF t < tgt_ids[2] - 1
                     THEN MaskSlice(self_attn_mask, t + 1, t + 1)
                     ELSE self_attn_mask
             out == DecoderLSTM_forward(self.decoder, self.tgt_vocab_size,
                                        <<tgt_ids[1], 1>>, encoder_outputs, mask)
             now == Append(handed, [mask |-> MaskShape(mask), scores |-> out.scores])
         IN  IF out.raised # ""
             THEN [raised |-> out.raised, steps |-> Len(now), handed |-> now,
                   result |-> <<>>]
             ELSE ForwardLoop(self, t + 1, tgt_ids, encoder_outputs,
                              self_attn_mask, now)

\* EncoderDecoderLSTM.forward(src_ids, tgt_ids)
EncoderDecoderLSTM_forward(self, src_ids, tgt_ids) ==
    LET encoded == EncoderLSTM_forward(self.encoder, src_ids)
    IN  IF encoded.raised # ""
        THEN [raised |-> encoded.raised, steps |-> 0, handed |-> <<>>, result |-> <<>>]
        ELSE ForwardLoop(self, 1, tgt_ids, encoded.outputs, tril(tgt_ids[2]), <<>>)

\* the for loop of EncoderDecoderLSTM.inference from iteration t on;
\* argmax[t + 1][row] is the token output.argmax(1) gives the row at t
RECURSIVE InferenceLoop(_, _, _, _, _, _, _, _, _)
InferenceLoop(self, t, max_len, eos, batch_size, encoder_outputs, self_attn_mask, generated_ids, st) ==
    IF ~(t < max_len)
    THEN [raised |-> "", steps |-> Len(st.handed), handed |-> st.handed,
          result |-> generated_ids]
    ELSE LET mask == IF t < max_len - 1
                     THEN MaskSlice(self_attn_mask, t + 2, t + 2)
                     ELSE self_attn_mask
             out == DecoderLSTM_forward(self.decoder, self.tgt_vocab_size,
                                        <<batch_size, 1>>, encoder_outputs, mask)
             now == Append(st.handed, [mask |-> MaskShape(mask), scores |-> out.scores])
             next_tokens == st.argmax[t + 1]
             extended == [row \in 1..batch_size |->
                             Append(generated_ids[row], next_tokens[row])]
         IN  IF out.raised # ""
             THEN [raised |-> out.raised, steps |-> Len(now), handed |-> now,
                   result |-> <<>>]
             ELSE IF \A row \in 1..batch_size : next_tokens[row] = eos
             THEN [raised |-> "", steps |-> Len(now), handed |-> now,
                   result |-> extended]
             ELSE InferenceLoop(self, t + 1, max_len, eos, batch_size,
                                encoder_outputs, self_attn_mask, extended,
                                [st EXCEPT !.handed = now])

\* EncoderDecoderLSTM.inference(src_ids, max_len, sos_token, eos_token)
EncoderDecoderLSTM_inference(self, src_ids, max_len, sos, eos, argmax) ==
    LET encoded == EncoderLSTM_forward(self.encoder, src_ids)
    IN  IF encoded.raised # ""
        THEN [raised |-> encoded.raised, steps |-> 0, handed |-> <<>>, result |-> <<>>]
        ELSE InferenceLoop(self, 0, max_len, eos, src_ids[1], encoded.outputs,
                           tril(max_len), [row \in 1..src_ids[1] |-> <<sos>>],
                           [handed |-> <<>>, argmax |-> argmax])

\* the variables after a method of EncoderDecoderLSTM ended with out
Seq2SeqEnds(out) ==
    /\ seq_pc' = IF out.raised # "" THEN "raised" ELSE "returned"
    /\ seq_error' = out.raised
    /\ seq_steps' = out.steps
    /\ seq_handed' = out.handed
    /\ seq_result' = out.result

\* EncoderDecoderLSTM(...) is constructed and forward or inference is
\* called on it once
Seq2SeqCall ==
    /\ seq_pc = "idle"
    /\ \E hidden_size \in 1..MaxHidden, num_heads \in 1..MaxHeads,
          batch \in 1..MaxBatch, src_len \in 1..MaxSeqLen,
          length \in 1..MaxSeqLen, method \in {"forward", "inference"} :
         /\ seq_call' = [hidden_size |-> hidden_size, num_heads |-> num_heads,
                         batch |-> batch, src_len |-> src_len,
                         method |-> method, length |-> length]
         /\ \E self \in {EncoderDecoderLSTM__init__(TgtVocabSize, hidden_size, num_heads)} :
              IF self.raised # ""
              THEN Seq2SeqEnds([raised |-> self.raised, steps |-> 0,
                                handed |-> <<>>, result |-> <<>>])
              ELSE IF method = "forward"
              THEN Seq2SeqEnds(EncoderDecoderLSTM_forward(
                       self, <<batch, src_len>>, <<batch, length>>))
              ELSE \E argmax \in [1..length -> [1..batch -> 0..(TgtVocabSize - 1)]] :
                     Seq2SeqEnds(EncoderDecoderLSTM_inference(
                         self, <<batch, src_len>>, length, sos_token, eos_token, argmax))
    /\ UNCHANGED <<decoder_vars, mha_vars>>

\* no EncoderDecoderLSTM has been constructed
Seq2SeqIdle ==
    /\ seq_pc = "idle"
    /\ seq_call = <<>>
    /\ seq_error = ""
    /\ seq_steps = 0
    /\ seq_handed = <<>>
    /\ seq_result = <<>>

\* the calls the claims are about: a vocabulary of at least k entries and
\* alpha in [0, 1]
Init == DecoderInit({TopK, TopK + 1}, ValidAlphas) /\ MHAIdle /\ Seq2SeqIdle

Next == GenerateStep \/ GenerateReturn

Spec == Init /\ [][Next]_vars

\* every call the signature admits: also a vocabulary smaller than k and
\* alpha outside [0, 1]
InitAny ==
    /\ DecoderInit({TopK - 1, TopK, TopK + 1}, ValidAlphas \cup InvalidAlphas)
    /\ MHAIdle /\ Seq2SeqIdle

SpecAny == InitAny /\ [][Next]_vars

\* the calls the notebook itself makes: a vocabulary larger than k, alpha left
\* at its default
InitDefault == DecoderInit({TopK + 1}, {DefaultAlpha}) /\ MHAIdle /\ Seq2SeqIdle

\* the loop is sequential code: a step that can be taken is taken
LiveSpec == InitDefault /\ [][Next]_vars /\ WF_vars(Next)

\* the attention notebook: one MultiHeadAttention is built and called
InitMHA == DecoderIdle /\ MHAIdle /\ Seq2SeqIdle

NextMHA == MHACall

SpecMHA == InitMHA /\ [][NextMHA]_vars

\* the sequence-to-sequence model: one EncoderDecoderLSTM is built and one of
\* its methods is called
InitSeq2Seq == DecoderIdle /\ MHAIdle /\ Seq2SeqIdle

NextSeq2Seq == Seq2SeqCall

SpecSeq2Seq == InitSeq2Seq /\ [][NextSeq2Seq]_vars

(***************************************************************************)
(* Properties of the contrastive decoder.                                  *)
(***************************************************************************)
Min(a, b) == IF a < b THEN a ELSE b

Plausible == {i \in 1..Len(plausible_mask) : plausible_mask[i]}

\* a token was appended by the last iteration
Appended == next_token # 0 /\ pc # "error"

\* C1: in adaptive contrastive decoding the token appended at a step has
\* expert_probs[token] >= alpha * max(expert_probs) for that step's expert
\* distribution, lies inside the plausibility mask and does not have the
\* score -inf, also when fewer than k indices survive the mask.
C1_SampledTokenIsPlausible ==
    (adaptive /\ Appended) =>
        /\ RatGeq(expert_probs[next_token],
                  RatMul(alpha, RatMax(expert_probs)))
        /\ plausible_mask[next_token]
        /\ contrastive_logits[next_token] # NegInf

\* the example of the specification: expert 0.7, 0.2, 0.05, 0.05 (here 14, 4,
\* 1, ... over their sum, at the place the context puts them), alpha = 0.3:
\* one index survives, fewer than k, and it is the token appended
C1_Witness ==
    /\ adaptive /\ Appended
    /\ alpha = Rat(3, 10)
    /\ vocab_size > TopK
    /\ expert_probs[next_token] = Rat(14, vocab_size + 16)
    /\ \E i \in 1..vocab_size : expert_probs[i] = Rat(4, vocab_size + 16)
    /\ Plausible = {next_token}
    /\ Cardinality(Plausible) < TopK

\* C2: the generated sequence starts as the prompt's ids and grows by one
\* token per step, so a call with a prompt of L tokens and num_tokens = N
\* ends with a sequence of exactly L + N tokens (both decoders).
C2_LengthInvariant ==
    /\ Len(generated_tokens) >= Len(prompt)
    /\ SubSeq(generated_tokens, 1, Len(prompt)) = prompt
    /\ pc # "error" => Len(generated_tokens) = Len(prompt) + step
    /\ pc = "done" => Len(generated_tokens) = Len(prompt) + num_tokens

C2_Witness ==
    /\ pc = "done"
    /\ num_tokens = MaxTokens
    /\ Len(prompt) = MaxPromptLen
    /\ Len(generated_tokens) = MaxPromptLen + MaxTokens

\* C3: when k exceeds the number of non-excluded vocabulary entries the step
\* completes without error and draws from min(k, number of non-excluded
\* entries) candidates, also when the vocabulary has fewer than k entries.
C3_TopKClampsToSurvivors ==
    (AlphaInRange(alpha) /\ step > 0) =>
        /\ pc # "error"
        /\ Cardinality(multinomial(topk_probs)) =
              Min(TopK, Cardinality({i \in 1..Len(contrastive_logits) :
                                        contrastive_logits[i] # NegInf}))

\* C4: at every decoding step both scorers are queried with exactly the
\* current token sequence: the prompt ids followed by every token sampled in
\* earlier steps.
C4_ScorersSeeCurrentSequence ==
    (step > 0 /\ pc # "error") =>
        scorer_input = SubSeq(generated_tokens, 1, Len(generated_tokens) - 1)

\* C5: a decoder given alpha outside [0, 1] is rejected before any decoding
\* step runs.
C5_InvalidAlphaRejected ==
    ~AlphaInRange(alpha) => (step = 0 /\ scorer_input = <<>> /\ pc # "done")

\* C6: for alpha in [0, 1] every index of maximal expert probability
\* satisfies the plausibility mask, so the set of surviving candidates is
\* never empty at any decoding step.
C6_ArgmaxSurvivesMask ==
    (adaptive /\ step > 0) =>
        /\ \A i \in 1..vocab_size :
              (\A j \in 1..vocab_size : RatGeq(expert_probs[i], expert_probs[j]))
                  => plausible_mask[i]
        /\ Plausible # {}

\* alpha = 1 with a single largest probability: only the argmax survives
C6_Witness ==
    /\ adaptive /\ step > 0
    /\ alpha = Rat(1, 1)
    /\ Cardinality(Plausible) = 1
    /\ Appended

\* C7: with alpha = 0 the adaptive decoder's mask is all true and its score
\* vector equals the non-adaptive decoder's score vector,
\* log(expert_probs) - log(amateur_probs), at every vocabulary index.
C7_AlphaZeroDegenerates ==
    (adaptive /\ step > 0 /\ alpha = Rat(0, 1)) =>
        /\ \A i \in 1..vocab_size : plausible_mask[i]
        /\ contrastive_logits = ContrastivePlain(expert_probs, amateur_probs)

C7_Witness ==
    /\ adaptive /\ step > 0 /\ alpha = Rat(0, 1)
    /\ expert_model = "peaked" /\ amateur_model = "tail"
    /\ Appended

\* C8: the decoder terminates after exactly num_tokens steps: it is either
\* generating or done, never stops early, whatever token is sampled (the
\* end-of-sequence token included), and never runs more than num_tokens
\* steps.
C8_TerminatesAfterNumTokens ==
    /\ [](pc \in {"generating", "done"})
    /\ [](step <= num_tokens)
    /\ [](pc = "done" => step = num_tokens)
    /\ <>(pc = "done")

\* the end-of-sequence token was sampled at the first step and generation
\* went on to the last step
C8_Witness ==
    /\ pc = "done"
    /\ num_tokens = MaxTokens
    /\ step = MaxTokens
    /\ generated_tokens[Len(prompt) + 1] = eos_token_id(vocab_size)

\* the amateur distributions the model can produce
AmateurDistributions ==
    {softmax(Logits(m, <<s>>, vocab_size)) : m \in AmateurModels, s \in 1..vocab_size}

\* C9: the plausibility mask of a step depends only on the expert
\* distribution and alpha: the step run with any other amateur distribution
\* computes the same mask; the amateur enters the score only as the
\* subtracted log-probability at the indices inside the mask, and the
\* excluded indices score -inf whatever the amateur is.
C9_MaskIgnoresAmateur ==
    (adaptive /\ step > 0) =>
        \A other \in AmateurDistributions :
            LET twin == ContrastiveAdaptive(expert_probs, other, alpha)
            IN  /\ twin.plausible_mask = plausible_mask
                /\ \A i \in 1..vocab_size :
                      IF plausible_mask[i]
                      THEN /\ contrastive_logits[i].exp =
                                  RatDiv(expert_probs[i], amateur_probs[i])
                           /\ twin.contrastive_logits[i].exp =
                                  RatDiv(expert_probs[i], other[i])
                      ELSE /\ contrastive_logits[i] = NegInf
                           /\ twin.contrastive_logits[i] = NegInf

\* a step whose mask excludes some entries and keeps several, under an
\* amateur that is not uniform
C9_Witness ==
    /\ adaptive /\ step > 0
    /\ amateur_model = "tail"
    /\ Cardinality(Plausible) > 1
    /\ Cardinality(Plausible) < vocab_size
    /\ Appended

(***************************************************************************)
(* Properties of MultiHeadAttention.                                       *)
(***************************************************************************)
\* C10: for any hidden_size divisible by num_heads and any batch, q_len and
\* kv_len, constructing MultiHeadAttention and calling forward completes and
\* returns one tensor of shape (batch, q_len, hidden_size), for
\* self-attention and cross-attention alike.
C10_ForwardReturnsQueryShape ==
    (mha_pc # "idle" /\ mha_call.hidden_size % mha_call.num_heads = 0) =>
        /\ mha_pc = "returned"
        /\ mha_output = <<mha_call.batch, mha_call.q_len, mha_call.hidden_size>>

\* the configuration of the call is one the class accepts
MHAValidConfig == mha_call.hidden_size % mha_call.num_heads = 0

\* C11: forward projects query, key and value with three distinct
\* projections: Q is self.query applied to query, K is self.key applied to
\* key and V is self.value applied to value, so the output depends on the
\* weights of the key projection.
C11_ThreeDistinctProjections ==
    (mha_pc # "idle" /\ MHAValidConfig) =>
        /\ mha_pc = "returned"
        /\ mha_uses = [Q |-> "query", K |-> "key", V |-> "value"]
        /\ "key" \in {mha_uses.Q, mha_uses.K, mha_uses.V}

\* C12: constructing MultiHeadAttention with a hidden_size that num_heads
\* does not divide fails at construction with the assertion's error, before
\* any projection is created, and no forward call takes place.
C12_IndivisibleFailsAtConstruction ==
    (mha_pc # "idle" /\ ~MHAValidConfig) =>
        /\ mha_pc = "raised"
        /\ mha_error = "AssertionError"
        /\ mha_layers = <<>>
        /\ mha_output = <<>>
        /\ mha_uses = <<>>

\* hidden_size = 4 with 3 heads
C12_Witness ==
    /\ mha_pc = "raised"
    /\ mha_call.hidden_size = 4 /\ mha_call.num_heads = 3
    /\ mha_error = "AssertionError"
    /\ mha_layers = <<>>

\* C13: self-attention under the lower-triangular causal mask gives every
\* key position j > i the score -inf and the weight 0 for query position i,
\* so the output at position i is computed from positions 1..i only and no
\* change at a later position reaches it.
C13_CausalMaskBlocksFuture ==
    (mha_pc # "idle" /\ MHAValidConfig /\ mha_call.causal) =>
        /\ mha_pc = "returned"
        /\ \A i \in 1..mha_call.q_len : mha_attends[i] \subseteq 1..i

(***************************************************************************)
(* Properties of EncoderDecoderLSTM.                                       *)
(***************************************************************************)
\* the configuration of the model is one MultiHeadAttention accepts
Seq2SeqValidConfig == seq_call.hidden_size % seq_call.num_heads = 0

\* C14: the decoding loops of forward (t = 1..tgt_seq_len-1) and of inference
\* (t = 0..max_len-1) run their iterations, and at every iteration the mask
\* slice handed to the decoder's self-attention is broadcastable to that
\* step's scores, of shape (batch, heads, 1, 1) since the decoder input of a
\* step is one token.
C14_MaskSliceBroadcastable ==
    (seq_pc # "idle" /\ Seq2SeqValidConfig) =>
        /\ IF seq_call.method = "forward"
           THEN seq_steps = seq_call.length - 1
           ELSE seq_steps >= 1
        /\ \A k \in 1..Len(seq_handed) :
              /\ seq_handed[k].scores =
                     <<seq_call.batch, seq_call.num_heads, 1, 1>>
              /\ Broadcastable(seq_handed[k].mask, seq_handed[k].scores)

\* C15: inference with max_len >= 1 ends after at most max_len decoder steps
\* and returns, per batch row, a sequence that starts with sos_token and has
\* between 2 and max_len + 1 tokens; it stops before max_len steps only at a
\* step where the argmax token of every row is eos_token, and a row that
\* produced eos_token earlier is extended until then.
C15_InferenceTerminates ==
    (seq_pc # "idle" /\ Seq2SeqValidConfig /\ seq_call.method = "inference") =>
        /\ seq_pc = "returned"
        /\ seq_steps \in 1..seq_call.length
        /\ DOMAIN seq_result = 1..seq_call.batch
        /\ \A row \in 1..seq_call.batch :
              /\ Len(seq_result[row]) = seq_steps + 1
              /\ Len(seq_result[row]) \in 2..(seq_call.length + 1)
              /\ seq_result[row][1] = sos_token
        /\ seq_steps < seq_call.length =>
              \A row \in 1..seq_call.batch :
                  seq_result[row][seq_steps + 1] = eos_token
        /\ \A k \in 2..seq_steps :
              \E row \in 1..seq_call.batch : seq_result[row][k] # eos_token

====
